---- MODULE Spec2Model ----
(***************************************************************************)
(* Label synchronisation of spine_cicd_actions/sync_labels.py.             *)
(*                                                                         *)
(* main() reads the labels of the source repository once, reads the list   *)
(* of downstream repositories from repos.yaml and calls                    *)
(* sync_labels_to_repo once per downstream repository.  The remote label   *)
(* API (get_repo, get_labels, create_label) is the environment: every      *)
(* remote call either succeeds or raises GithubException.                  *)
(*                                                                         *)
(* Spec          one run of main()                                         *)
(* SpecReconcile a caller invoking sync_labels_to_repo directly, with      *)
(*               either value of dry_run, several times in a row           *)
(***************************************************************************)
EXTENDS Integers, Sequences, FiniteSets, TLC

VARIABLES
  pc,               \* position of the thread of control
  exit_code,        \* process exit status, meaningful once pc = "exit"
  uncaught,         \* exception that left main() uncaught, "none" otherwise
  org_name,         \* main: org_name
  source_labels,    \* main: source_labels (list of dicts)
  data,             \* load_repos: data (parsed repos.yaml), NotRead before
  downstream_repos, \* main: downstream_repos
  ti,               \* main: position of the for loop over downstream_repos
  total_created,    \* main: total_created
  total_skipped,    \* main: total_skipped
  total_errors,     \* main: total_errors
  target_repo,      \* sync_labels_to_repo: target_repo (its full name)
  dry_run,          \* sync_labels_to_repo: dry_run
  existing_labels,  \* sync_labels_to_repo: keys of existing_labels
  idx,              \* sync_labels_to_repo: position of the for loop
  created_count,    \* sync_labels_to_repo: created_count
  skipped_count,    \* sync_labels_to_repo: skipped_count
  error_count,      \* sync_labels_to_repo: error_count
  remote,           \* labels stored by the remote, per downstream repository
  calls,            \* remote calls issued so far, in order, with their outcome
  out,              \* lines printed so far, in order
  results           \* direct caller: values returned by sync_labels_to_repo

vars == << pc, exit_code, uncaught, org_name, source_labels, data,
           downstream_repos, ti, total_created, total_skipped, total_errors,
           target_repo, dry_run, existing_labels, idx, created_count,
           skipped_count, error_count, remote, calls, out, results >>

mainVars == << exit_code, uncaught, org_name, data, downstream_repos, ti,
               total_created, total_skipped, total_errors >>

syncVars == << target_repo, dry_run, existing_labels, idx, created_count,
               skipped_count, error_count >>

----------------------------------------------------------------------------
(* Bounds *)

MaxLabels == 2      \* longest source label list
MaxExisting == 1    \* most labels a downstream repository starts with
MaxTargets == 2     \* longest list under the repos key
MaxCalls == 2       \* direct calls of sync_labels_to_repo in a row

----------------------------------------------------------------------------
(* Values *)

None == "<None>"

Names == {"bug", "docs"}

\* color and description as the remote stores them; a label without a
\* description has description None
RemoteStyles == { [color |-> "ff0000", description |-> None],
                  [color |-> "0000ff", description |-> "Documentation"] }

RemoteLabels == { [name |-> n, color |-> s.color, description |-> s.description] :
                    n \in Names, s \in RemoteStyles }

SourceOrg == "acme"
SourceRepo == << SourceOrg, "main" >>
RepoNames == {"svc-a", "svc-b"}

UniqueNames(labels) == \A a, b \in labels : a.name = b.name => a = b

SeqsUpTo(S, n) == UNION { [1..k -> S] : k \in 0..n }

Injective(s) == \A i, j \in DOMAIN s : s[i].name = s[j].name => i = j

\* what the label listing of the source repository can return
SourceListings == { s \in SeqsUpTo(RemoteLabels, MaxLabels) : Injective(s) }

\* labels a downstream repository can start with: the code reads only their
\* names, so they all carry one color and no description
TargetLabels == { l \in RemoteLabels : l.color = "ff0000" }

\* label sets a downstream repository can start with
TargetLabelSets == { T \in SUBSET TargetLabels :
                       UniqueNames(T) /\ Cardinality(T) <= MaxExisting }

NoLabel == [name |-> None, color |-> None, description |-> None]

Call(op, repo, label, ok) == [op |-> op, repo |-> repo, label |-> label, ok |-> ok]

Line(kind, repo, name, counts) ==
  [kind |-> kind, repo |-> repo, name |-> name, counts |-> counts]

----------------------------------------------------------------------------
(* Pure parts of the code *)

\* data.get("repos", []): the value under the key when the key is present,
\* also when that value is None
load_repos(d) ==
  IF d.has_repos THEN [is_none |-> d.repos_none, list |-> d.repos]
                 ELSE [is_none |-> FALSE, list |-> << >>]

\* the dict get_labels builds for one remote label
LabelDict(label) ==
  [name |-> label.name,
   color |-> label.color,
   description |-> IF label.description = None THEN "" ELSE label.description]

get_labels(listing) == [i \in DOMAIN listing |-> LabelDict(listing[i])]

\* f"{org_name}/{repo_name}"
FullRepoName(org, repo_name) == << org, repo_name >>

\* keys of {label.name: label for label in target_repo.get_labels()}
ExistingNames(labels) == { label.name : label \in labels }

\* AlreadyExists with the membership test lost
AlreadyExistsNever(label_name, existing) == FALSE

\* label_name in existing_labels
AlreadyExists(label_name, existing) == label_name \in existing

\* IssuesCreate with the dry_run flag ignored
IssuesCreateAlways(dry) == TRUE

\* whether the create branch calls the remote
IssuesCreate(dry) == ~dry

\* CreateArgs with the description left out
CreateArgsNoDescription(label_data) ==
  [name |-> label_data.name, color |-> label_data.color, description |-> ""]

\* arguments of target_repo.create_label
CreateArgs(label_data) ==
  [name |-> label_data.name,
   color |-> label_data.color,
   description |-> label_data.description]

\* Tally with created_count += 1 moved after the try statement
TallyCreatedAfterTry(outcome, counts) ==
  CASE outcome = "exists"  -> [counts EXCEPT !.skipped = @ + 1]
    [] outcome = "dry"     -> [counts EXCEPT !.created = @ + 1]
    [] outcome = "created" -> [counts EXCEPT !.created = @ + 1]
    [] outcome = "failed"  -> [counts EXCEPT !.errors = @ + 1, !.created = @ + 1]

\* the counter each outcome of one loop iteration increments
Tally(outcome, counts) ==
  CASE outcome = "exists"  -> [counts EXCEPT !.skipped = @ + 1]
    [] outcome = "dry"     -> [counts EXCEPT !.created = @ + 1]
    [] outcome = "created" -> [counts EXCEPT !.created = @ + 1]
    [] outcome = "failed"  -> [counts EXCEPT !.errors = @ + 1]

\* NextLabel with the loop left at the first failed create
NextLabelStopOnFailure(outcome, i, n) == IF outcome = "failed" THEN n + 1 ELSE i + 1

\* the for loop over source_labels goes on after every outcome
NextLabel(outcome, i, n) == i + 1

\* ResumeAfterFailure with the loop left at the first access failure
StopAfterFailure(i, n) == n + 1

\* the for loop over downstream_repos goes on after an access failure
ResumeAfterFailure(i, n) == i + 1

\* OnSourceFetchError with the exception swallowed
OnSourceFetchErrorSwallowed == [pc |-> "load_repos", uncaught |-> "none"]

\* an exception raised by get_labels(source_repo) is caught nowhere
OnSourceFetchError == [pc |-> "exit", uncaught |-> "GithubException"]

\* ExitStatus with the final sys.exit(1) lost
ExitStatusAlwaysZero(errors) == 0

\* if total_errors > 0: sys.exit(1)
ExitStatus(errors) == IF errors > 0 THEN 1 ELSE 0

\* the remote stores a created label
RemoteCreate(labels, label) == labels \cup {label}

\* the remote refuses a label whose name it already has
RemoteAccepts(labels, label) == label.name \notin ExistingNames(labels)

----------------------------------------------------------------------------
(* Inputs *)

Tokens == {None, "", "token"}
RepositoryEnv == {None, "acme/main"}

RepoLists == SeqsUpTo(RepoNames, MaxTargets)

\* repos.yaml: absent, an empty document, or a mapping
RepoFiles ==
  { [kind |-> "missing", has_repos |-> FALSE, repos_none |-> FALSE, repos |-> << >>],
    [kind |-> "empty",   has_repos |-> FALSE, repos_none |-> FALSE, repos |-> << >>],
    [kind |-> "mapping", has_repos |-> FALSE, repos_none |-> FALSE, repos |-> << >>],
    [kind |-> "mapping", has_repos |-> TRUE,  repos_none |-> TRUE,  repos |-> << >>] }
  \cup
  { [kind |-> "mapping", has_repos |-> TRUE, repos_none |-> FALSE, repos |-> r] :
      r \in RepoLists }

NotRead == [kind |-> "unread", has_repos |-> FALSE, repos_none |-> FALSE, repos |-> << >>]

TargetRepos == { FullRepoName(SourceOrg, r) : r \in RepoNames }

NoRepo == << None, None >>

ZeroCounts == [created |-> 0, skipped |-> 0, errors |-> 0]

----------------------------------------------------------------------------
(* Initial states *)

InitCommon ==
  /\ exit_code = 0
  /\ uncaught = "none"
  /\ org_name = None
  /\ data = NotRead
  /\ downstream_repos = << >>
  /\ ti = 1
  /\ total_created = 0
  /\ total_skipped = 0
  /\ total_errors = 0
  /\ target_repo = NoRepo
  /\ dry_run = FALSE
  /\ existing_labels = {}
  /\ idx = 1
  /\ created_count = 0
  /\ skipped_count = 0
  /\ error_count = 0
  /\ remote \in [TargetRepos -> TargetLabelSets]
  /\ calls = << >>
  /\ out = << >>
  /\ results = << >>

Init ==
  /\ pc = "start"
  /\ source_labels = << >>
  /\ InitCommon

\* a caller holding labels read with get_labels
InitReconcile ==
  /\ pc = "idle"
  /\ source_labels \in { get_labels(s) : s \in SourceListings }
  /\ InitCommon

----------------------------------------------------------------------------
(* main() *)

Exit(code, exception) ==
  /\ pc' = "exit"
  /\ exit_code' = code
  /\ uncaught' = exception

\* lines 84-93: the two environment variables
ReadEnv ==
  /\ pc = "start"
  /\ \E github_token \in Tokens, current_repo_name \in RepositoryEnv :
       IF github_token \in {None, ""} \/ current_repo_name \in {None, ""}
       THEN Exit(1, "none")
       ELSE /\ pc' = "get_source"
            /\ UNCHANGED << exit_code, uncaught >>
  /\ UNCHANGED << org_name, source_labels, data, downstream_repos, ti,
                  total_created, total_skipped, total_errors, syncVars,
                  remote, calls, out, results >>

\* lines 100-107: g.get_repo(current_repo_name) and its organization
GetSourceRepo ==
  /\ pc = "get_source"
  /\ \E answer \in {"organization", "user", "error"} :
       /\ calls' = Append(calls, Call("get_repo", SourceRepo, NoLabel, answer # "error"))
       /\ CASE answer = "organization" ->
                 /\ org_name' = SourceOrg
                 /\ pc' = "fetch_source"
                 /\ UNCHANGED << exit_code, uncaught >>
            [] answer = "user" ->
                 \* source_repo.organization is None
                 /\ Exit(1, "AttributeError")
                 /\ UNCHANGED org_name
            [] answer = "error" ->
                 /\ Exit(1, "none")
                 /\ UNCHANGED org_name
  /\ UNCHANGED << source_labels, data, downstream_repos, ti, total_created,
                  total_skipped, total_errors, syncVars, remote, out, results >>

\* line 111: get_labels(source_repo), outside any try
FetchSourceLabels ==
  /\ pc = "fetch_source"
  /\ \/ \E listing \in SourceListings :
          /\ calls' = Append(calls, Call("get_labels", SourceRepo, NoLabel, TRUE))
          /\ source_labels' = get_labels(listing)
          /\ pc' = "load_repos"
          /\ UNCHANGED << exit_code, uncaught >>
     \/ /\ calls' = Append(calls, Call("get_labels", SourceRepo, NoLabel, FALSE))
        /\ pc' = OnSourceFetchError.pc
        /\ uncaught' = OnSourceFetchError.uncaught
        /\ exit_code' = 1
        /\ UNCHANGED source_labels
  /\ UNCHANGED << org_name, data, downstream_repos, ti, total_created,
                  total_skipped, total_errors, syncVars, remote, out, results >>

\* lines 115-128: repos.yaml
LoadRepos ==
  /\ pc = "load_repos"
  /\ \E file \in RepoFiles :
       /\ data' = file
       /\ CASE file.kind = "missing" ->
                 /\ Exit(1, "none")
                 /\ UNCHANGED downstream_repos
            [] file.kind = "empty" ->
                 \* yaml.safe_load returns None, None.get raises
                 /\ Exit(1, "AttributeError")
                 /\ UNCHANGED downstream_repos
            [] file.kind = "mapping" /\ load_repos(file).is_none ->
                 \* len(None) raises
                 /\ Exit(1, "TypeError")
                 /\ UNCHANGED downstream_repos
            [] OTHER ->
                 /\ downstream_repos' = load_repos(file).list
                 /\ pc' = "loop"
                 /\ UNCHANGED << exit_code, uncaught >>
  /\ ti' = 1
  /\ total_created' = 0
  /\ total_skipped' = 0
  /\ total_errors' = 0
  /\ UNCHANGED << org_name, source_labels, syncVars, remote, calls, out, results >>

\* lines 130-133: the next downstream repository
GetTargetRepo ==
  /\ pc = "loop"
  /\ ti <= Len(downstream_repos)
  /\ LET full_repo_name == FullRepoName(org_name, downstream_repos[ti]) IN
       \E ok \in BOOLEAN :
         /\ calls' = Append(calls, Call("get_repo", full_repo_name, NoLabel, ok))
         /\ target_repo' = full_repo_name
         /\ IF ok THEN /\ pc' = "list_target"
                       /\ dry_run' = FALSE
                  ELSE /\ pc' = "raised"
                       /\ UNCHANGED dry_run
  /\ UNCHANGED << mainVars, source_labels, existing_labels, idx, created_count,
                  skipped_count, error_count, remote, out, results >>

\* lines 134-137: the counts returned are added to the totals
MainAccumulate ==
  /\ pc = "returned"
  /\ total_created' = total_created + created_count
  /\ total_skipped' = total_skipped + skipped_count
  /\ total_errors' = total_errors + error_count
  /\ ti' = ti + 1
  /\ pc' = "loop"
  /\ UNCHANGED << exit_code, uncaught, org_name, source_labels, data,
                  downstream_repos, syncVars, remote, calls, out, results >>

\* lines 138-140: except GithubException
MainExcept ==
  /\ pc = "raised"
  /\ out' = Append(out, Line("access_failed", target_repo, None, ZeroCounts))
  /\ total_errors' = total_errors + 1
  /\ ti' = ResumeAfterFailure(ti, Len(downstream_repos))
  /\ pc' = "loop"
  /\ UNCHANGED << exit_code, uncaught, org_name, source_labels, data,
                  downstream_repos, total_created, total_skipped, syncVars,
                  remote, calls, results >>

\* lines 143-152: the final summary and the exit status
FinalSummary ==
  /\ pc = "loop"
  /\ ti > Len(downstream_repos)
  /\ out' = Append(out, Line("final", NoRepo, None,
                             [created |-> total_created,
                              skipped |-> total_skipped,
                              errors |-> total_errors]))
  /\ Exit(ExitStatus(total_errors), "none")
  /\ UNCHANGED << org_name, source_labels, data, downstream_repos, ti,
                  total_created, total_skipped, total_errors, syncVars,
                  remote, calls, results >>

----------------------------------------------------------------------------
(* sync_labels_to_repo(source_labels, target_repo, dry_run) *)

\* lines 45-49: the labels of the target, then the three counters
ListTargetLabels ==
  /\ pc = "list_target"
  /\ \E ok \in BOOLEAN :
       /\ calls' = Append(calls, Call("get_labels", target_repo, NoLabel, ok))
       /\ IF ok
          THEN /\ existing_labels' = ExistingNames(remote[target_repo])
               /\ created_count' = 0
               /\ skipped_count' = 0
               /\ error_count' = 0
               /\ idx' = 1
               /\ pc' = "sync_loop"
          ELSE /\ pc' = "raised"
               /\ UNCHANGED << existing_labels, created_count, skipped_count,
                               error_count, idx >>
  /\ UNCHANGED << mainVars, source_labels, target_repo, dry_run, remote, out,
                  results >>

Counts == [created |-> created_count, skipped |-> skipped_count,
           errors |-> error_count]

\* the effect of one loop iteration with the given outcome
Iterate(outcome, label_data) ==
  LET after == Tally(outcome, Counts) IN
    /\ created_count' = after.created
    /\ skipped_count' = after.skipped
    /\ error_count' = after.errors
    /\ out' = Append(out, Line(outcome, target_repo, label_data.name, ZeroCounts))
    /\ idx' = NextLabel(outcome, idx, Len(source_labels))

\* lines 51-71: one iteration of the loop over source_labels
SyncLabel ==
  /\ pc = "sync_loop"
  /\ idx <= Len(source_labels)
  /\ LET label_data == source_labels[idx] IN
       IF AlreadyExists(label_data.name, existing_labels)
       THEN /\ Iterate("exists", label_data)
            /\ UNCHANGED << remote, calls >>
       ELSE IF ~IssuesCreate(dry_run)
       THEN /\ Iterate("dry", label_data)
            /\ UNCHANGED << remote, calls >>
       ELSE \E ok \in BOOLEAN :
              /\ ok => RemoteAccepts(remote[target_repo], CreateArgs(label_data))
              /\ calls' = Append(calls, Call("create_label", target_repo,
                                             CreateArgs(label_data), ok))
              /\ IF ok
                 THEN /\ remote' = [remote EXCEPT ![target_repo] =
                                      RemoteCreate(@, CreateArgs(label_data))]
                      /\ Iterate("created", label_data)
                 ELSE /\ UNCHANGED remote
                      /\ Iterate("failed", label_data)
  /\ UNCHANGED << pc, mainVars, source_labels, target_repo, dry_run,
                  existing_labels, results >>

\* lines 73-78: the summary of this repository and the return
SyncReturn ==
  /\ pc = "sync_loop"
  /\ idx > Len(source_labels)
  /\ out' = Append(out, Line("summary", target_repo, None, Counts))
  /\ pc' = "returned"
  /\ UNCHANGED << mainVars, source_labels, syncVars, remote, calls, results >>

----------------------------------------------------------------------------
(* A caller of sync_labels_to_repo other than main() *)

CallSync ==
  /\ pc = "idle"
  /\ Len(results) < MaxCalls
  /\ \E repo \in TargetRepos, dry \in BOOLEAN :
       /\ target_repo' = repo
       /\ dry_run' = dry
  /\ pc' = "list_target"
  /\ UNCHANGED << mainVars, source_labels, existing_labels, idx, created_count,
                  skipped_count, error_count, remote, calls, out, results >>

Result(repo, dry, raised, counts) ==
  [repo |-> repo, dry_run |-> dry, raised |-> raised, counts |-> counts]

CallerReceive ==
  /\ pc = "returned"
  /\ results' = Append(results, Result(target_repo, dry_run, FALSE, Counts))
  /\ pc' = "idle"
  /\ UNCHANGED << mainVars, source_labels, syncVars, remote, calls, out >>

CallerCatch ==
  /\ pc = "raised"
  /\ results' = Append(results, Result(target_repo, dry_run, TRUE, ZeroCounts))
  /\ pc' = "idle"
  /\ UNCHANGED << mainVars, source_labels, syncVars, remote, calls, out >>

----------------------------------------------------------------------------
(* Specifications *)

Next ==
  \/ ReadEnv
  \/ GetSourceRepo
  \/ FetchSourceLabels
  \/ LoadRepos
  \/ GetTargetRepo
  \/ ListTargetLabels
  \/ SyncLabel
  \/ SyncReturn
  \/ MainAccumulate
  \/ MainExcept
  \/ FinalSummary

Spec == Init /\ [][Next]_vars

NextReconcile ==
  \/ CallSync
  \/ ListTargetLabels
  \/ SyncLabel
  \/ SyncReturn
  \/ CallerReceive
  \/ CallerCatch

SpecReconcile == InitReconcile /\ [][NextReconcile]_vars

TypeOK ==
  /\ pc \in {"start", "get_source", "fetch_source", "load_repos", "loop",
             "list_target", "sync_loop", "returned", "raised", "exit", "idle"}
  /\ exit_code \in {0, 1}
  /\ idx \in 1..(Len(source_labels) + 1)
  /\ ti \in 1..(Len(downstream_repos) + 1)
  /\ \A r \in TargetRepos : UniqueNames(remote[r])

----------------------------------------------------------------------------
(* Vocabulary of the properties *)

Count(s, P(_)) == Cardinality({ i \in DOMAIN s : P(s[i]) })

IsListing(c) == c.op = "get_labels"

\* the remote calls of the reconciliation in progress: those after its
\* listing of the target's labels
LastListing == CHOOSE i \in 0..Len(calls) :
                 /\ i > 0 => IsListing(calls[i])
                 /\ \A j \in (i + 1)..Len(calls) : ~IsListing(calls[j])

Segment == SubSeq(calls, LastListing + 1, Len(calls))

IsMissing(label_data) == label_data.name \notin existing_labels

\* the source labels absent from the fetched set, in source order
Missing == SelectSeq(source_labels, IsMissing)

SourceNames == { source_labels[i].name : i \in DOMAIN source_labels }

IsFailed(c) == ~c.ok
IsCreate(c) == c.op = "create_label"
IsFailedCreate(c) == c.op = "create_label" /\ ~c.ok
IsFailedTargetAccess(c) ==
  c.op \in {"get_repo", "get_labels"} /\ c.repo # SourceRepo /\ ~c.ok
IsTargetGetRepo(c) == c.op = "get_repo" /\ c.repo # SourceRepo
IsSummary(l) == l.kind = "summary"
IsAccessFailed(l) == l.kind = "access_failed"

RECURSIVE SumOf(_, _)
SumOf(s, field) ==
  IF s = << >> THEN 0
  ELSE (IF field = "created" THEN Head(s).counts.created
        ELSE IF field = "skipped" THEN Head(s).counts.skipped
        ELSE Head(s).counts.errors) + SumOf(Tail(s), field)

ReachedFinalSummary ==
  pc = "exit" /\ Len(out) > 0 /\ out[Len(out)].kind = "final"

----------------------------------------------------------------------------
(* Properties *)

\* C1: whenever sync_labels_to_repo returns, created + skipped + errors is
\* the number of source labels; inside the loop the three counters add up
\* to the number of labels visited, so each label is counted exactly once.
C1_CountsPartitionSource ==
  /\ pc = "sync_loop" => created_count + skipped_count + error_count = idx - 1
  /\ pc = "returned" =>
       created_count + skipped_count + error_count = Len(source_labels)

C1_Witness ==
  /\ pc = "returned"
  /\ Len(source_labels) = 2
  /\ created_count = 1
  /\ error_count = 1

\* C2: a reconciliation that is not a dry run, on a target whose label names
\* are all names of source labels, and whose create calls all succeed, issues
\* exactly one create call per source label missing from the target, in
\* source order and with the source's name, color and description; it counts
\* those as created, the others as skipped, and reports no error.
C2_CreatesExactlyMissing ==
  ( /\ pc = "returned"
    /\ ~dry_run
    /\ existing_labels \subseteq SourceNames
    /\ \A i \in DOMAIN Segment : Segment[i].ok )
  => /\ Segment = [i \in DOMAIN Missing |->
                     Call("create_label", target_repo, Missing[i], TRUE)]
     /\ created_count = Len(Missing)
     /\ skipped_count = Cardinality(existing_labels)
     /\ error_count = 0
     /\ \A i \in DOMAIN Missing : Missing[i] \in remote[target_repo]

C2_Witness ==
  /\ pc = "returned"
  /\ ~dry_run
  /\ existing_labels # {}
  /\ existing_labels \subseteq SourceNames
  /\ \A i \in DOMAIN Segment : Segment[i].ok
  /\ created_count = 1
  /\ skipped_count = 1
  /\ \E i \in DOMAIN Missing : Missing[i].description = "Documentation"

\* C3: no step removes or changes a label of a downstream repository, and
\* the only mutating call ever issued is create_label, on the repository
\* being reconciled, for a name absent from the set fetched from it.
C3_AdditiveOnly ==
  [][ /\ \A r \in TargetRepos :
           remote[r] \subseteq remote'[r] /\ UniqueNames(remote'[r])
      /\ calls' # calls =>
           LET c == calls'[Len(calls')] IN
             \/ c.op \in {"get_repo", "get_labels"}
             \/ /\ c.op = "create_label"
                /\ c.repo = target_repo
                /\ c.label.name \notin existing_labels ]_vars

\* a label kept although the source label of that name has another color,
\* next to a label created by the same reconciliation
C3_Witness ==
  /\ pc = "returned"
  /\ ~dry_run
  /\ created_count = 1
  /\ \E l \in remote[target_repo] : \E i \in DOMAIN source_labels :
       /\ source_labels[i].name = l.name
       /\ source_labels[i].color # l.color
       /\ l.description = None

\* C4 as stated: of two reconciliations in a row of the same target, the
\* second reports nothing created and every source label skipped.
C4_SecondRunCreatesNothing ==
  \A j \in DOMAIN results :
    ( /\ j > 1
      /\ results[j].repo = results[j - 1].repo
      /\ ~results[j].raised
      /\ ~results[j - 1].raised )
    => /\ results[j].counts.created = 0
       /\ results[j].counts.skipped = Len(source_labels)

\* C4 amended: the same, provided the first reconciliation was not a dry run
\* and none of its create calls failed.
C4_SecondRunAfterCompleteRun ==
  \A j \in DOMAIN results :
    ( /\ j > 1
      /\ results[j].repo = results[j - 1].repo
      /\ ~results[j].raised
      /\ ~results[j - 1].raised
      /\ ~results[j - 1].dry_run
      /\ results[j - 1].counts.errors = 0 )
    => /\ results[j].counts.created = 0
       /\ results[j].counts.skipped = Len(source_labels)
       /\ results[j].counts.errors = 0

C4_Witness ==
  /\ Len(results) = 2
  /\ results[1].repo = results[2].repo
  /\ ~results[1].raised /\ ~results[1].dry_run
  /\ results[1].counts.created = 2
  /\ ~results[2].raised /\ ~results[2].dry_run
  /\ results[2].counts.skipped = 2

\* C5: in a reconciliation that is not a dry run every source label missing
\* from the target gets its create call, in source order, whatever the
\* outcome of the earlier calls; errors counts the failed calls and created
\* the others.
C5_FailureDoesNotStopLoop ==
  (pc = "returned" /\ ~dry_run)
  => /\ Len(Segment) = Len(Missing)
     /\ \A i \in DOMAIN Segment :
          /\ Segment[i].op = "create_label"
          /\ Segment[i].label.name = Missing[i].name
     /\ error_count = Count(Segment, IsFailed)
     /\ created_count = Len(Missing) - Count(Segment, IsFailed)
     /\ skipped_count = Len(source_labels) - Len(Missing)

C5_Witness ==
  /\ pc = "returned"
  /\ ~dry_run
  /\ Len(Segment) = 2
  /\ ~Segment[1].ok
  /\ Segment[2].ok
  /\ error_count = 1
  /\ created_count = 1

\* C6: a dry run issues no remote call after the listing and leaves the
\* labels of every repository as they were; when it returns, created is the
\* number of source labels missing from the target and errors is 0.
C6_DryRunMutatesNothing ==
  /\ [][(dry_run /\ pc = "sync_loop") => (remote' = remote /\ calls' = calls)]_vars
  /\ []((dry_run /\ pc = "returned") =>
          /\ Segment = << >>
          /\ created_count =
               Count(source_labels,
                     LAMBDA l : l.name \notin ExistingNames(remote[target_repo]))
          /\ skipped_count = Len(source_labels) - created_count
          /\ error_count = 0)

C6_Witness ==
  /\ pc = "returned"
  /\ dry_run
  /\ created_count = 2
  /\ remote[target_repo] = {}

\* C7: an access failure on one downstream repository adds 1 to
\* total_errors and nothing to the other totals, happens before any create
\* call on that repository, and is followed by the next repository of the
\* list; at the final summary every declared repository has been accessed
\* once, in declared order, and the totals are the sums of the counts
\* reported for the repositories that were reconciled plus one error per
\* failed access.
C7_TargetFailureIsolated ==
  /\ [][pc = "raised" =>
          /\ total_errors' = total_errors + 1
          /\ total_created' = total_created
          /\ total_skipped' = total_skipped
          /\ remote' = remote
          /\ ti' = ti + 1
          /\ pc' = "loop"]_vars
  /\ [](pc = "raised" =>
          /\ ~calls[Len(calls)].ok
          /\ calls[Len(calls)].op \in {"get_repo", "get_labels"}
          /\ calls[Len(calls)].repo = target_repo)
  /\ [](ReachedFinalSummary =>
          /\ LET accessed == SelectSeq(calls, IsTargetGetRepo) IN
               /\ Len(accessed) = Len(downstream_repos)
               /\ \A i \in DOMAIN accessed :
                    accessed[i].repo = FullRepoName(SourceOrg, downstream_repos[i])
          /\ total_created = SumOf(SelectSeq(out, IsSummary), "created")
          /\ total_skipped = SumOf(SelectSeq(out, IsSummary), "skipped")
          /\ total_errors = SumOf(SelectSeq(out, IsSummary), "errors")
                              + Len(SelectSeq(out, IsAccessFailed)))

\* the first repository failed, the second was reconciled and got a label
C7_Witness ==
  /\ ReachedFinalSummary
  /\ Len(out) > 2
  /\ out[1].kind = "access_failed"
  /\ out[Len(out) - 1].kind = "summary"
  /\ total_created = 1
  /\ total_errors = 1

\* C8: a run that reaches the final summary exits with status 1 exactly
\* when total_errors > 0 and with status 0 otherwise; total_errors is the
\* number of failed create calls plus the number of failed accesses to
\* downstream repositories.
C8_ExitStatusFollowsErrors ==
  ReachedFinalSummary =>
    /\ uncaught = "none"
    /\ exit_code = 1 <=> total_errors > 0
    /\ exit_code = 0 <=> total_errors = 0
    /\ total_errors = Count(calls, IsFailedCreate) + Count(calls, IsFailedTargetAccess)

C8_Witness ==
  /\ ReachedFinalSummary
  /\ exit_code = 1
  /\ Count(calls, IsFailedCreate) = 1
  /\ Count(calls, IsFailedTargetAccess) = 1

\* C9: once a call on the source repository has failed the process has
\* ended with a non-zero status, no call on any other repository has been
\* issued and nothing has been reported for any downstream repository.
C9_SourceFailureIsFatal ==
  (\E i \in DOMAIN calls : calls[i].repo = SourceRepo /\ ~calls[i].ok)
  => /\ pc = "exit"
     /\ exit_code # 0
     /\ \A i \in DOMAIN calls : calls[i].repo = SourceRepo
     /\ out = << >>
     /\ total_created = 0 /\ total_skipped = 0 /\ total_errors = 0

C9_Witness ==
  /\ pc = "exit"
  /\ Len(calls) = 2
  /\ calls[2].op = "get_labels"
  /\ ~calls[2].ok
  /\ uncaught = "GithubException"

\* C10: when repos.yaml is a mapping whose repos key is absent or has no
\* value, load_repos returns the empty list, and the run ends with status 0,
\* all totals zero and no downstream repository contacted.
C10_MissingReposIsNoOp ==
  (data.kind = "mapping" /\ (~data.has_repos \/ data.repos_none))
  => /\ ~load_repos(data).is_none
     /\ load_repos(data).list = << >>
     /\ uncaught = "none"
     /\ pc = "exit" =>
          /\ exit_code = 0
          /\ total_created = 0 /\ total_skipped = 0 /\ total_errors = 0
          /\ \A i \in DOMAIN calls : calls[i].repo = SourceRepo

====
